---- MODULE Spec2Model ----
(***************************************************************************)
(* Two programs of the repository, run on the same parsed instruction      *)
(* sequence:                                                               *)
(*   - the Timeline Calculator (pipeline_sim.c, src/unnamed/part_000),     *)
(*     which computes per-instruction stage-entry cycles in closed form;   *)
(*   - the Cycle Simulator (src/extended_simulator.c), which steps a       *)
(*     five-slot pipeline one cycle at a time.                             *)
(* Register names are the strings the parser stores ("x<digits>"), and the *)
(* hazard test is string equality, as strcmp(...)==0 in the source.        *)
(* Instruction indices are the C indices 0..n-1; -1 is an empty slot.      *)
(***************************************************************************)
EXTENDS Integers, Sequences, FiniteSets, TLC

\* ---- bounds of the model ------------------------------------------------
\* longest input program built from every opcode over the registers Regs
MaxN == 3
\* longest input program built from mov alone over the registers MovRegs
MaxMovN == 4
\* the same two lengths for the runs checked for termination
MaxFairN == 2
MaxFairMovN == 3
Regs == {"x1", "x2"}
MovRegs == {"x1", "x2", "x3"}

\* ---- instruction model --------------------------------------------------
Ops == {"add", "sub", "mov"}

\* the Instr that parse_line fills in from an opcode and the registers found
MkInstr(op, r0, r1, r2) ==
    IF op = "mov"
    THEN [op |-> op, rd |-> r0, rs |-> <<r1, "">>, rs_count |-> 1]
    ELSE [op |-> op, rd |-> r0, rs |-> <<r1, r2>>, rs_count |-> 2]

InstrSet == { MkInstr(op, r0, r1, r2) : op \in Ops, r0 \in Regs, r1 \in Regs, r2 \in Regs }

MovSet == { MkInstr("mov", r0, r1, "") : r0 \in MovRegs, r1 \in MovRegs }

\* all programs of at most k instructions taken from S
ProgsOver(S, k) == UNION { [1..j -> S] : j \in 0..k }

\* the input programs: short ones over every opcode, longer chains of moves
Programs == ProgsOver(InstrSet, MaxN) \cup ProgsOver(MovSet, MaxMovN)

\* the input programs of the runs checked for termination
FairPrograms == ProgsOver(InstrSet, MaxFairN) \cup ProgsOver(MovSet, MaxFairMovN)

VARIABLES
    file,           \* the input file: its lines, each a sequence of characters
    lineno,         \* lines of the file read so far
    prog,           \* Instr prog[]: the parsed program, prog[idx+1] is C's prog[idx]
    \* Cycle Simulator (extended_simulator.c main)
    sphase,         \* "reading" | "parsed" | "loop" | "done" | "exit2" | "exit3" | "exit4"
    csv_sim,        \* pipeline_cycles.csv: "unopened" | "open" | "closed"
    pipe,           \* int pipe[5]: 0=IF 1=ID 2=EX 3=MEM 4=WB
    pc,             \* next instruction index to fetch
    completed,      \* instructions that finished WB
    total_stalls,   \* bubble cycles inserted
    cycle,          \* current cycle number
    stall_counter,  \* remaining bubble cycles for the current hazard
    finished,       \* prog[idx].finished
    id_stalls,      \* observer: stall cycles spent while idx was held in ID
    hz,             \* observer: results of the hazard checks made for idx in ID
    \* Timeline Calculator (pipeline_sim.c main)
    tphase,         \* "reading" | "parsed" | "scan" | "sched" | "totals" | "done"
                    \* | "exit2" | "exit3" | "exit4"
    csv_tl,         \* pipeline_timeline.csv: "unopened" | "written"
    ti,             \* loop index i of the running for loop
    d1, d2,         \* destinations of the last and the last-but-one instruction
    stalls,         \* int *stalls
    curIF,
    IFc, IDc, EXc, MEMc, WBc,
    sum_stalls, base_cycles, total_cycles

inVars  == <<file, lineno>>
simVars == <<sphase, csv_sim, pipe, pc, completed, total_stalls, cycle,
             stall_counter, finished, id_stalls, hz>>
tlVars  == <<tphase, csv_tl, ti, d1, d2, stalls, curIF, IFc, IDc, EXc, MEMc, WBc,
             sum_stalls, base_cycles, total_cycles>>
vars    == <<prog, inVars, simVars, tlVars>>

n == Len(prog)
Idx == 0 .. (n - 1)
\* C's prog[idx]
P(idx) == prog[idx + 1]

\* ======================================================================
\* Cycle Simulator: src/extended_simulator.c
\* ======================================================================

\* faulty variant: only the first source register is compared
reg_in_sources_first(reg, ins) ==
    ins.rs_count >= 1 /\ ins.rs[1] = reg

\* strcmp(reg, ins->rs[i])==0 for some i < rs_count
reg_in_sources(reg, ins) ==
    \E k \in 1 .. ins.rs_count : ins.rs[k] = reg

\* faulty variant: a producer in Memory costs two stalls as well
needed_stalls_mem_two(id_idx, ex_idx, mem_idx) ==
    IF id_idx < 0 THEN 0
    ELSE IF ex_idx >= 0 /\ reg_in_sources(P(ex_idx).rd, P(id_idx)) THEN 2
    ELSE IF mem_idx >= 0 /\ reg_in_sources(P(mem_idx).rd, P(id_idx)) THEN 2
    ELSE 0

\* faulty variant: the stalls for the two producers are added up
needed_stalls_sum(id_idx, ex_idx, mem_idx) ==
    IF id_idx < 0 THEN 0
    ELSE (IF ex_idx >= 0 /\ reg_in_sources(P(ex_idx).rd, P(id_idx)) THEN 2 ELSE 0)
         + (IF mem_idx >= 0 /\ reg_in_sources(P(mem_idx).rd, P(id_idx)) THEN 1 ELSE 0)

\* faulty variant: the Memory producer is tested before the Execute producer
needed_stalls_mem_first(id_idx, ex_idx, mem_idx) ==
    IF id_idx < 0 THEN 0
    ELSE IF mem_idx >= 0 /\ reg_in_sources(P(mem_idx).rd, P(id_idx)) THEN 1
    ELSE IF ex_idx >= 0 /\ reg_in_sources(P(ex_idx).rd, P(id_idx)) THEN 2
    ELSE 0

\* hazard detection for the instruction in ID against the ones in EX and MEM
needed_stalls_for_id(id_idx, ex_idx, mem_idx) ==
    IF id_idx < 0 THEN 0
    ELSE IF ex_idx >= 0 /\ reg_in_sources(P(ex_idx).rd, P(id_idx)) THEN 2
    ELSE IF mem_idx >= 0 /\ reg_in_sources(P(mem_idx).rd, P(id_idx)) THEN 1
    ELSE 0

EmptyPipe == [k \in 0..4 |-> -1]

\* faulty variant: the WB slot is not cleared after write-back
WriteBackSlot_keep(p) == p

\* write-back at the top of the cycle: the WB slot is cleared
WriteBackSlot(p) == IF p[4] >= 0 THEN [p EXCEPT ![4] = -1] ELSE p

\* faulty variant: the slot moved from is not emptied
MoveSlot_copy(p, from) ==
    IF p[from] >= 0 THEN [p EXCEPT ![from + 1] = p[from]] ELSE p

\* if (pipe[from] >= 0) { pipe[from+1] = pipe[from]; pipe[from] = -1; }
MoveSlot(p, from) ==
    IF p[from] >= 0 THEN [p EXCEPT ![from + 1] = p[from], ![from] = -1] ELSE p

\* faulty variant: Execute is not moved on a stall cycle
StallShift_keep_ex(p) == MoveSlot(p, 3)

\* stall branch: MEM -> WB, EX -> MEM; ID and IF stay
StallShift(p) == MoveSlot(MoveSlot(p, 3), 2)

\* faulty variant: the instruction before pc is fetched
FetchSlot_before_pc(p, pcv) ==
    [p EXCEPT ![0] = IF pcv < n THEN (IF pcv > 0 THEN pcv - 1 ELSE pcv) ELSE -1]

\* fetch: if (pc < n) pipe[0] = pc++; else pipe[0] = -1;
FetchSlot(p, pcv) == [p EXCEPT ![0] = IF pcv < n THEN pcv ELSE -1]

\* faulty variant: Execute is moved two slots on, past Memory
AdvanceShift_skip_mem(p, pcv) ==
    LET q == MoveSlot(p, 3)
        r == IF q[2] >= 0 /\ q[4] < 0 THEN [q EXCEPT ![4] = q[2], ![2] = -1]
             ELSE MoveSlot(q, 2)
    IN  FetchSlot(MoveSlot(MoveSlot(r, 1), 0), pcv)

\* normal advancement: MEM->WB, EX->MEM, ID->EX, IF->ID, then fetch
AdvanceShift(p, pcv) ==
    FetchSlot(MoveSlot(MoveSlot(MoveSlot(MoveSlot(p, 3), 2), 1), 0), pcv)

\* faulty variant: the move is undone whenever a hazard is detected
HazardUndo_always(p, req) ==
    IF req > 0 THEN [p EXCEPT ![1] = p[2], ![2] = -1] ELSE p

\* after a detected hazard: undo ID->EX when EX holds the instruction in ID
HazardUndo(p, req) ==
    IF req > 0 /\ p[2] = p[1] THEN [p EXCEPT ![1] = p[2], ![2] = -1] ELSE p

InitSim ==
    /\ pipe = EmptyPipe
    /\ pc = 0
    /\ completed = 0
    /\ total_stalls = 0
    /\ cycle = 0
    /\ stall_counter = 0
    /\ finished = [k \in Idx |-> 0]
    /\ id_stalls = [k \in Idx |-> 0]
    /\ hz = [k \in Idx |-> <<>>]
    /\ csv_sim = "unopened"

\* faulty variant: the test for an empty program is missing
SimStart_no_empty_test ==
    /\ UNCHANGED <<prog, inVars, tlVars>>
    /\ sphase = "parsed"
    /\ sphase' = "loop"
    /\ csv_sim' = "open"
    /\ UNCHANGED <<pipe, pc, completed, total_stalls, cycle, stall_counter,
                   finished, id_stalls, hz>>

\* after parsing: an empty program ends the run with exit code 4; otherwise
\* the pipeline state is set up and pipeline_cycles.csv is opened
SimStart ==
    /\ UNCHANGED <<prog, inVars, tlVars>>
    /\ sphase = "parsed"
    /\ sphase' = IF n = 0 THEN "exit4" ELSE "loop"
    /\ csv_sim' = IF n = 0 THEN csv_sim ELSE "open"
    /\ UNCHANGED <<pipe, pc, completed, total_stalls, cycle, stall_counter,
                   finished, id_stalls, hz>>

\* faulty variant: write-back does not mark the instruction finished
Retire_no_flag ==
    /\ cycle' = cycle + 1
    /\ completed' = IF pipe[4] >= 0 THEN completed + 1 ELSE completed
    /\ finished' = finished

\* the part of one loop iteration common to both branches: cycle++, write-back
Retire ==
    /\ cycle' = cycle + 1
    /\ completed' = IF pipe[4] >= 0 THEN completed + 1 ELSE completed
    /\ finished' = IF pipe[4] >= 0 THEN [finished EXCEPT ![pipe[4]] = 1] ELSE finished

\* faulty variant: a stall cycle clears the stall counter
SimStall_clear ==
    /\ UNCHANGED <<prog, inVars, tlVars>>
    /\ sphase = "loop"
    /\ completed < n
    /\ stall_counter > 0
    /\ Retire
    /\ LET p == StallShift(WriteBackSlot(pipe)) IN
         /\ pipe' = p
         /\ id_stalls' = IF p[1] >= 0 THEN [id_stalls EXCEPT ![p[1]] = @ + 1]
                         ELSE id_stalls
    /\ total_stalls' = total_stalls + 1
    /\ stall_counter' = 0
    /\ UNCHANGED <<sphase, csv_sim, pc, hz>>

\* one loop iteration that takes the stall branch (stall_counter > 0)
SimStall ==
    /\ UNCHANGED <<prog, inVars, tlVars>>
    /\ sphase = "loop"
    /\ completed < n
    /\ stall_counter > 0
    /\ Retire
    /\ LET p == StallShift(WriteBackSlot(pipe)) IN
         /\ pipe' = p
         /\ id_stalls' = IF p[1] >= 0 THEN [id_stalls EXCEPT ![p[1]] = @ + 1]
                         ELSE id_stalls
    /\ total_stalls' = total_stalls + 1
    /\ stall_counter' = stall_counter - 1
    /\ UNCHANGED <<sphase, csv_sim, pc, hz>>

\* faulty variant: pc is increased even when nothing is left to fetch
SimAdvance_pc_always ==
    /\ UNCHANGED <<prog, inVars, tlVars>>
    /\ sphase = "loop"
    /\ completed < n
    /\ stall_counter = 0
    /\ Retire
    /\ LET p   == AdvanceShift(WriteBackSlot(pipe), pc)
           req == needed_stalls_for_id(p[1], p[2], p[3])
       IN
         /\ pipe' = HazardUndo(p, req)
         /\ stall_counter' = IF req > 0 THEN req ELSE stall_counter
         /\ hz' = IF p[1] >= 0 THEN [hz EXCEPT ![p[1]] = Append(@, req)] ELSE hz
    /\ pc' = pc + 1
    /\ UNCHANGED <<sphase, csv_sim, total_stalls, id_stalls>>

\* one loop iteration that advances the pipeline and checks for a hazard
SimAdvance ==
    /\ UNCHANGED <<prog, inVars, tlVars>>
    /\ sphase = "loop"
    /\ completed < n
    /\ stall_counter = 0
    /\ Retire
    /\ LET p   == AdvanceShift(WriteBackSlot(pipe), pc)
           req == needed_stalls_for_id(p[1], p[2], p[3])
       IN
         /\ pipe' = HazardUndo(p, req)
         /\ stall_counter' = IF req > 0 THEN req ELSE stall_counter
         /\ hz' = IF p[1] >= 0 THEN [hz EXCEPT ![p[1]] = Append(@, req)] ELSE hz
    /\ pc' = IF pc < n THEN pc + 1 ELSE pc
    /\ UNCHANGED <<sphase, csv_sim, total_stalls, id_stalls>>

\* faulty variant: the loop can be left with one instruction still to retire
SimFinish_early ==
    /\ UNCHANGED <<prog, inVars, tlVars>>
    /\ sphase = "loop"
    /\ ~(completed < n - 1)
    /\ sphase' = "done"
    /\ csv_sim' = "closed"
    /\ UNCHANGED <<pipe, pc, completed, total_stalls, cycle, stall_counter,
                   finished, id_stalls, hz>>

\* the loop ends when completed reaches n; the CSV file is closed and the
\* summary is printed
SimFinish ==
    /\ UNCHANGED <<prog, inVars, tlVars>>
    /\ sphase = "loop"
    /\ ~(completed < n)
    /\ sphase' = "done"
    /\ csv_sim' = "closed"
    /\ UNCHANGED <<pipe, pc, completed, total_stalls, cycle, stall_counter,
                   finished, id_stalls, hz>>

SimNext == SimStart \/ SimStall \/ SimAdvance \/ SimFinish

\* ======================================================================
\* Timeline Calculator: pipeline_sim.c (src/unnamed/part_000)
\* ======================================================================

\* faulty variant: the first source register is never compared
reg_in_sources_tl_skip_first(reg, ins) ==
    \E k \in 2 .. ins.rs_count : ins.rs[k] = reg

\* reg_in_sources of pipeline_sim.c
reg_in_sources_tl(reg, ins) ==
    \E k \in 1 .. ins.rs_count : ins.rs[k] = reg

\* faulty variant: the two hazards are added up instead of taking the larger
scan_stall_sum(a, b, ins) ==
    (IF a # "" /\ reg_in_sources_tl(a, ins) THEN 2 ELSE 0)
    + (IF b # "" /\ reg_in_sources_tl(b, ins) THEN 1 ELSE 0)

\* faulty variant: only the immediately preceding destination is looked at
scan_stall_d1_only(a, b, ins) ==
    IF a # "" /\ reg_in_sources_tl(a, ins) THEN 2 ELSE 0

\* body of the dependency scan for one instruction: s from the window d1, d2
scan_stall(a, b, ins) ==
    LET s1 == IF a # "" /\ reg_in_sources_tl(a, ins) THEN 2 ELSE 0
    IN  IF b # "" /\ reg_in_sources_tl(b, ins)
        THEN (IF s1 > 1 THEN s1 ELSE 1)
        ELSE s1

\* long sum_stalls = sum of stalls[0..k-1]
RECURSIVE SumTo(_, _)
SumTo(f, k) == IF k = 0 THEN 0 ELSE SumTo(f, k - 1) + f[k - 1]

\* value of an int array cell that malloc returned and nothing wrote yet;
\* the program writes every cell before it reads it
Unset == -1

InitTL ==
    /\ ti = 0
    /\ d1 = ""
    /\ d2 = ""
    /\ stalls = [k \in Idx |-> 0]
    /\ curIF = 1
    /\ IFc = [k \in Idx |-> Unset]
    /\ IDc = [k \in Idx |-> Unset]
    /\ EXc = [k \in Idx |-> Unset]
    /\ MEMc = [k \in Idx |-> Unset]
    /\ WBc = [k \in Idx |-> Unset]
    /\ sum_stalls = 0
    /\ base_cycles = 0
    /\ total_cycles = 0
    /\ csv_tl = "unopened"

\* after parsing: an empty program ends the run with exit code 4; otherwise
\* the six arrays of n cells are allocated
TLStart ==
    /\ UNCHANGED <<prog, inVars, simVars>>
    /\ tphase = "parsed"
    /\ tphase' = IF n = 0 THEN "exit4" ELSE "scan"
    /\ IF n = 0
       THEN UNCHANGED <<stalls, IFc, IDc, EXc, MEMc, WBc>>
       ELSE /\ stalls' = [k \in Idx |-> 0]
            /\ IFc' = [k \in Idx |-> Unset]
            /\ IDc' = [k \in Idx |-> Unset]
            /\ EXc' = [k \in Idx |-> Unset]
            /\ MEMc' = [k \in Idx |-> Unset]
            /\ WBc' = [k \in Idx |-> Unset]
    /\ UNCHANGED <<csv_tl, ti, d1, d2, curIF, sum_stalls, base_cycles, total_cycles>>

\* one iteration of the dependency scan (first for loop)
TLScan ==
    /\ UNCHANGED <<prog, inVars, simVars>>
    /\ tphase = "scan"
    /\ ti < n
    /\ stalls' = [stalls EXCEPT ![ti] = scan_stall(d1, d2, P(ti))]
    /\ d2' = d1
    /\ d1' = P(ti).rd
    /\ ti' = IF ti + 1 < n THEN ti + 1 ELSE 0
    /\ tphase' = IF ti + 1 < n THEN "scan" ELSE "sched"
    /\ UNCHANGED <<csv_tl, curIF, IFc, IDc, EXc, MEMc, WBc, sum_stalls,
                   base_cycles, total_cycles>>

\* faulty variant: the stall is not added to the fetch cycle
start_if_nostall(cur, s) == cur

\* int start_if = curIF + s;
start_if_of(cur, s) == cur + s

\* faulty variant: the next fetch cycle is not advanced past this instruction
next_curIF_same(start_if) == start_if

\* curIF = start_if + 1;
next_curIF(start_if) == start_if + 1

\* one iteration of the schedule loop (second for loop)
TLSchedule ==
    /\ UNCHANGED <<prog, inVars, simVars>>
    /\ tphase = "sched"
    /\ ti < n
    /\ LET start_if == start_if_of(curIF, stalls[ti]) IN
         /\ IFc' = [IFc EXCEPT ![ti] = start_if]
         /\ IDc' = [IDc EXCEPT ![ti] = start_if + 1]
         /\ EXc' = [EXc EXCEPT ![ti] = start_if + 2]
         /\ MEMc' = [MEMc EXCEPT ![ti] = start_if + 3]
         /\ WBc' = [WBc EXCEPT ![ti] = start_if + 4]
         /\ curIF' = next_curIF(start_if)
    /\ ti' = IF ti + 1 < n THEN ti + 1 ELSE 0
    /\ tphase' = IF ti + 1 < n THEN "sched" ELSE "totals"
    /\ UNCHANGED <<csv_tl, d1, d2, stalls, sum_stalls, base_cycles, total_cycles>>

\* totals: sum of stalls, base cycles, total cycles; the report is printed and
\* the timeline CSV file is opened, written and closed
TLTotals ==
    /\ UNCHANGED <<prog, inVars, simVars>>
    /\ tphase = "totals"
    /\ sum_stalls' = SumTo(stalls, n)
    /\ base_cycles' = n + 4
    /\ total_cycles' = WBc[n - 1]
    /\ tphase' = "done"
    /\ csv_tl' = "written"
    /\ UNCHANGED <<ti, d1, d2, stalls, curIF, IFc, IDc, EXc, MEMc, WBc>>

TLNext == TLStart \/ TLScan \/ TLSchedule \/ TLTotals

\* ======================================================================
\* Input parsing (the same code in both programs)
\* ======================================================================

\* a line is a sequence of characters; a character is a one-character string,
\* except for the bytes that have no printable form: "VT" is the vertical tab
\* and "EF", "BB", "BF" are the three bytes of the UTF-8 byte-order mark

\* capacity of the program array
MAX_INSTR == 4096

LowerCase == <<"a", "b", "c", "d", "e", "f", "g", "h", "i", "j", "k", "l", "m",
               "n", "o", "p", "q", "r", "s", "t", "u", "v", "w", "x", "y", "z">>
UpperCase == <<"A", "B", "C", "D", "E", "F", "G", "H", "I", "J", "K", "L", "M",
               "N", "O", "P", "Q", "R", "S", "T", "U", "V", "W", "X", "Y", "Z">>

isalpha(c) == \E i \in 1 .. 26 : c = LowerCase[i] \/ c = UpperCase[i]
isdigit(c) == c \in {"0", "1", "2", "3", "4", "5", "6", "7", "8", "9"}
isspace(c) == c \in {" ", "\t", "\n", "\r", "\f", "VT"}
tolower(c) ==
    IF \E i \in 1 .. 26 : c = UpperCase[i]
    THEN LowerCase[CHOOSE i \in 1 .. 26 : c = UpperCase[i]]
    ELSE c

\* the least element of a non-empty set of positions
First(S) == CHOOSE i \in S : \A j \in S : i <= j

\* drop a leading byte-order mark
strip_bom_inplace(s) ==
    IF Len(s) >= 3 /\ s[1] = "EF" /\ s[2] = "BB" /\ s[3] = "BF"
    THEN SubSeq(s, 4, Len(s))
    ELSE s

\* cut the line at its first '#'
strip_comment(s) ==
    LET hash == {i \in 1 .. Len(s) : s[i] = "#"}
    IN  IF hash = {} THEN s ELSE SubSeq(s, 1, First(hash) - 1)

\* drop trailing whitespace
rtrim_ascii(s) ==
    LET keep == {i \in 1 .. Len(s) : s[i] \notin {"\n", "\r", "\t", " ", "\f", "VT"}}
    IN  IF keep = {} THEN <<>>
        ELSE SubSeq(s, 1, CHOOSE i \in keep : \A j \in keep : j <= i)

is_blank_ascii(s) == \A i \in 1 .. Len(s) : isspace(s[i])

OP_BAD == "bad"

\* the first alphabetic word (cut after 15 letters) that reads add, sub or mov,
\* whatever its case; the search starts at position p
RECURSIVE find_opcode_from(_, _)
find_opcode_from(s, p) ==
    LET alpha == {i \in p .. Len(s) : isalpha(s[i])}
    IN  IF alpha = {} THEN OP_BAD
        ELSE LET p1   == First(alpha)
                 stop == {i \in p1 .. Len(s) : ~isalpha(s[i])}
                 wend == IF stop = {} THEN Len(s) + 1 ELSE First(stop)
                 q    == IF wend - p1 > 15 THEN p1 + 15 ELSE wend
                 w    == [i \in 1 .. (q - p1) |-> tolower(s[p1 + i - 1])]
             IN  IF w = <<"a", "d", "d">> THEN "add"
                 ELSE IF w = <<"s", "u", "b">> THEN "sub"
                 ELSE IF w = <<"m", "o", "v">> THEN "mov"
                 ELSE find_opcode_from(s, q)

find_opcode(s) == find_opcode_from(s, 1)

\* find_next_reg returning NULL
NoReg == [np |-> 0, digits |-> <<>>]

\* the next token x<digits> at or after position p: the position after its
\* digits and its (at most 14) stored digits
find_next_reg(s, p) ==
    LET starts == {i \in p .. (Len(s) - 1) : s[i] \in {"x", "X"} /\ isdigit(s[i + 1])}
    IN  IF starts = {} THEN NoReg
        ELSE LET i    == First(starts)
                 stop == {k \in (i + 1) .. Len(s) : ~isdigit(s[k])}
                 q    == IF stop = {} THEN Len(s) + 1 ELSE First(stop)
                 j    == IF q - (i + 1) > 14 THEN 14 ELSE q - (i + 1)
             IN  [np |-> q, digits |-> SubSeq(s, i + 1, i + j)]

\* the characters of d as one string
RECURSIVE Join(_)
Join(d) == IF d = <<>> THEN "" ELSE Head(d) \o Join(Tail(d))

\* the register scan of parse_line: at most three names "x<digits>"
RECURSIVE scan_regs(_, _, _)
scan_regs(buf, p, regs) ==
    IF ~(Len(regs) < 3) THEN regs
    ELSE LET f == find_next_reg(buf, p)
         IN  IF f = NoReg THEN regs
             ELSE scan_regs(buf, f.np, Append(regs, "x" \o Join(f.digits)))

\* r = 0: the line is skipped, r = -1: parse error, r = 1: ins is the instruction
parse_line(line_in) ==
    LET buf    == rtrim_ascii(strip_comment(strip_bom_inplace(line_in)))
        op     == find_opcode(buf)
        regs   == scan_regs(buf, 1, <<>>)
        rcount == Len(regs)
    IN  IF is_blank_ascii(buf) THEN [r |-> 0]
        ELSE IF op = OP_BAD THEN [r |-> 0]
        ELSE IF op \in {"add", "sub"} /\ rcount # 3 THEN [r |-> -1]
        ELSE IF op = "mov" /\ rcount # 2 THEN [r |-> -1]
        ELSE IF op = "mov"
             THEN [r |-> 1, ins |-> MkInstr(op, regs[1], regs[2], "")]
             ELSE [r |-> 1, ins |-> MkInstr(op, regs[1], regs[2], regs[3])]

\* the state before the first line is read
InitRead ==
    /\ lineno = 0
    /\ prog = <<>>
    /\ sphase = "reading" /\ tphase = "reading"
    /\ InitSim
    /\ InitTL

\* one turn of the read loop: the next line is parsed; a parse error ends the
\* run with exit code 2, a full program array with exit code 3
ReadLine ==
    /\ sphase = "reading" /\ tphase = "reading"
    /\ lineno < Len(file)
    /\ lineno' = lineno + 1
    /\ LET res == parse_line(file[lineno + 1])
       IN  IF res.r < 0
           THEN /\ sphase' = "exit2" /\ tphase' = "exit2"
                /\ UNCHANGED <<prog, finished, id_stalls, hz>>
           ELSE IF res.r = 1 /\ n >= MAX_INSTR
           THEN /\ sphase' = "exit3" /\ tphase' = "exit3"
                /\ UNCHANGED <<prog, finished, id_stalls, hz>>
           ELSE IF res.r = 1
           THEN /\ prog' = Append(prog, res.ins)
                /\ finished' = [k \in 0 .. n |-> 0]
                /\ id_stalls' = [k \in 0 .. n |-> 0]
                /\ hz' = [k \in 0 .. n |-> <<>>]
                /\ UNCHANGED <<sphase, tphase>>
           ELSE UNCHANGED <<prog, finished, id_stalls, hz, sphase, tphase>>
    /\ UNCHANGED <<file, csv_sim, pipe, pc, completed, total_stalls, cycle,
                   stall_counter>>
    /\ UNCHANGED <<csv_tl, ti, d1, d2, stalls, curIF, IFc, IDc, EXc, MEMc, WBc,
                   sum_stalls, base_cycles, total_cycles>>

\* the end of the file: the read loop ends
ReadEnd ==
    /\ sphase = "reading" /\ tphase = "reading"
    /\ ~(lineno < Len(file))
    /\ sphase' = "parsed" /\ tphase' = "parsed"
    /\ UNCHANGED <<prog, inVars, csv_sim, pipe, pc, completed, total_stalls, cycle,
                   stall_counter, finished, id_stalls, hz>>
    /\ UNCHANGED <<csv_tl, ti, d1, d2, stalls, curIF, IFc, IDc, EXc, MEMc, WBc,
                   sum_stalls, base_cycles, total_cycles>>

\* ======================================================================
\* Specifications
\* ======================================================================

\* the input file has been parsed into prog; neither program has started
InputRead ==
    /\ file = <<>> /\ lineno = 0
    /\ sphase = "parsed" /\ tphase = "parsed"

Init == prog \in Programs /\ InputRead /\ InitSim /\ InitTL

\* the Cycle Simulator alone
SpecSim == Init /\ [][SimNext]_vars

\* the Cycle Simulator as a sequential program that keeps taking its next step
InitFair == prog \in FairPrograms /\ InputRead /\ InitSim /\ InitTL

FairSpecSim == InitFair /\ [][SimNext]_vars /\ WF_vars(SimNext)

\* the Timeline Calculator alone
SpecTimeline == Init /\ [][TLNext]_vars

\* both programs on the same input file: the Cycle Simulator is started once
\* the Timeline Calculator has ended
SimStartAfterTimeline == tphase \in {"done", "exit4"} /\ SimStart

Next ==
    \/ TLStart
    \/ TLScan
    \/ TLSchedule
    \/ TLTotals
    \/ SimStartAfterTimeline
    \/ SimStall
    \/ SimAdvance
    \/ SimFinish

Spec == Init /\ [][Next]_vars

\* ---- input files ----

MaxLines == 2
MaxRegTokens == 4

OpWord(op) ==
    CASE op = "add" -> <<"a", "d", "d">>
      [] op = "sub" -> <<"s", "u", "b">>
      [] op = "mov" -> <<"m", "o", "v">>

DigitChar == <<"1", "2", "3", "4", "5", "6", "7", "8", "9">>

\* the register tokens x<k> for the numbers k of rs, separated by ", "
RECURSIVE RegTokens(_)
RegTokens(rs) ==
    IF rs = <<>> THEN <<>>
    ELSE IF Len(rs) = 1 THEN <<"x", DigitChar[rs[1]]>>
    ELSE <<"x", DigitChar[rs[1]], ",", " ">> \o RegTokens(Tail(rs))

\* a line as fgets returns it
InstrLine(op, rs) == OpWord(op) \o <<" ">> \o RegTokens(rs) \o <<"\n">>

\* register lists of 0 .. MaxRegTokens tokens: x1, x2, x1, ... and x1, x1, x1, ...
\* and x2, x1, x2, ...
RegLists ==
    UNION {{[i \in 1 .. k |-> 2 - (i % 2)], [i \in 1 .. k |-> 1],
            [i \in 1 .. k |-> 1 + (i % 2)]} : k \in 0 .. MaxRegTokens}

OtherLines ==
    { <<"\n">>,
      <<" ", "\t", "\n">>,
      <<"#", " ">> \o InstrLine("add", <<1, 2, 3>>),
      <<"n", "o", "p", " ", "x", "1", ",", " ", "x", "2", "\n">>,
      <<"a", "d", "d", " ", "x", "1", ",", " ", "x", "2", " ", "#", " ", "x", "3", "\n">>,
      <<"A", "D", "D", " ", "X", "1", ",", " ", "X", "2", ",", " ", "X", "1", "\n">>,
      <<"EF", "BB", "BF">> \o InstrLine("mov", <<1, 2>>),
      <<"m", "o", "v", " ", "x", "1", "0", ",", " ", "x", "1", "\r", "\n">> }

Lines == {InstrLine(op, rs) : op \in Ops, rs \in RegLists} \cup OtherLines

ScenarioA == <<InstrLine("add", <<1, 2, 3>>), InstrLine("add", <<4, 5, 6>>),
               InstrLine("add", <<7, 8, 9>>)>>
ScenarioB == <<InstrLine("add", <<1, 2, 3>>), InstrLine("sub", <<4, 1, 5>>)>>
ScenarioC == <<InstrLine("mov", <<1, 2>>), InstrLine("add", <<3, 4, 5>>),
               InstrLine("sub", <<6, 1, 4>>)>>

Files == ProgsOver(Lines, MaxLines) \cup {ScenarioA, ScenarioB, ScenarioC}

\* both programs from the reading of the input file on
InitParse == file \in Files /\ InitRead

NextParse ==
    \/ ReadLine
    \/ ReadEnd
    \/ TLStart
    \/ TLScan
    \/ TLSchedule
    \/ TLTotals
    \/ SimStartAfterTimeline
    \/ SimStall
    \/ SimAdvance
    \/ SimFinish

SpecParse == InitParse /\ [][NextParse]_vars

\* ======================================================================
\* Properties
\* ======================================================================

\* the source registers an instruction reads
Sources(ins) == { ins.rs[k] : k \in 1 .. ins.rs_count }

\* instruction i reads the register that the earlier instruction j writes
Depends(i, j) == j \in Idx /\ i \in Idx /\ j < i /\ P(j).rd \in Sources(P(i))

\* the documented stall policy for instruction i, from program order alone
Policy(i) ==
    IF Depends(i, i - 1) THEN 2
    ELSE IF Depends(i, i - 2) THEN 1
    ELSE 0

\* the dependency scan has stored stalls[i]
Scanned(i) == tphase \in {"sched", "totals", "done"} \/ (tphase = "scan" /\ i < ti)

\* the schedule loop has stored IFc[i] .. WBc[i]
Scheduled(i) == tphase \in {"totals", "done"} \/ (tphase = "sched" /\ i < ti)

\* C1: when the simulator's loop has ended, its cycle count equals the
\* Timeline Calculator's total cycles WB[N-1] for the same program.
C1_CyclesAgree == sphase = "done" => cycle = total_cycles

\* C2: when the simulator's loop has ended, its total_stalls equals the
\* Timeline Calculator's sum of stalls[i] for the same program.
C2_StallsAgree == sphase = "done" => total_stalls = sum_stalls

\* C3: when the simulator's loop has ended, every instruction i was held in
\* Decode for exactly Policy(i) stall cycles: 2 if i-1 is a producer, else 1
\* if i-2 is a producer, else 0.
C3_SimStallPolicy ==
    sphase = "done" => \A i \in Idx : id_stalls[i] = Policy(i)

\* C4: every stalls[i] the dependency scan has stored is 2 if instruction
\* i-1's destination is among i's sources, else 1 if instruction i-2's is,
\* else 0; so stalls[0] = 0 and two producers give 2, never 3.
C4_TimelineStallRule ==
    \A i \in Idx : Scanned(i) =>
        /\ stalls[i] = Policy(i)
        /\ stalls[i] \in {0, 1, 2}
        /\ (i = 0 => stalls[i] = 0)

\* a finished scan in which some instruction reads the two different
\* destinations of both instructions before it, and got 2
C4_Witness ==
    /\ tphase = "done"
    /\ \E i \in Idx :
         /\ Depends(i, i - 1)
         /\ Depends(i, i - 2)
         /\ P(i - 1).rd # P(i - 2).rd
         /\ stalls[i] = 2

\* what the hazard rule asks of the simulator's oracle, from the slot contents
OracleRule(id, ex, mem) ==
    IF id < 0 THEN 0
    ELSE IF ex >= 0 /\ P(ex).rd \in Sources(P(id)) THEN 2
    ELSE IF mem >= 0 /\ P(mem).rd \in Sources(P(id)) THEN 1
    ELSE 0

\* the oracle reads three slots: id_idx, ex_idx, mem_idx
SlotsRead == 3

\* C5: needed_stalls_for_id returns 0 for an empty Decode, else 2 when the
\* Execute occupant writes a source of the Decode occupant, else 1 when the
\* Memory occupant does, else 0; always a value in {0,1,2}. Checked for every
\* triple of slot contents over every input program of at most SlotsRead
\* instructions (three slots name at most three instructions), and for the
\* slot contents of every state of the simulation loop.
C5_HazardOracle ==
    /\ (sphase = "parsed" /\ n <= SlotsRead) =>
          \A id \in -1 .. (n - 1), ex \in -1 .. (n - 1), mem \in -1 .. (n - 1) :
             /\ needed_stalls_for_id(id, ex, mem) = OracleRule(id, ex, mem)
             /\ needed_stalls_for_id(id, ex, mem) \in {0, 1, 2}
    /\ sphase = "loop" =>
          /\ needed_stalls_for_id(pipe[1], pipe[2], pipe[3])
                = OracleRule(pipe[1], pipe[2], pipe[3])
          /\ needed_stalls_for_id(pipe[1], pipe[2], pipe[3]) \in {0, 1, 2}

\* the cycle on which the oracle found a producer in Memory only: the Decode
\* occupant reads the Memory occupant's destination, not the Execute one's
C5_Witness ==
    /\ sphase = "loop"
    /\ pipe[1] >= 0 /\ pipe[2] >= 0 /\ pipe[3] >= 0
    /\ P(pipe[3]).rd \in Sources(P(pipe[1]))
    /\ P(pipe[2]).rd \notin Sources(P(pipe[1]))
    /\ needed_stalls_for_id(pipe[1], pipe[2], pipe[3]) = 1
    /\ stall_counter = 1

\* C6: every schedule entry stored so far has IF[0] = 1, IF[i] = IF[i-1] + 1
\* + stalls[i] for i > 0, ID/EX/MEM/WB = IF + 1/2/3/4, and IF strictly
\* increasing in program order.
C6_ScheduleShape ==
    \A i \in Idx : Scheduled(i) =>
        /\ IFc[i] = (IF i = 0 THEN 1 ELSE IFc[i - 1] + 1 + stalls[i])
        /\ IDc[i] = IFc[i] + 1
        /\ EXc[i] = IFc[i] + 2
        /\ MEMc[i] = IFc[i] + 3
        /\ WBc[i] = IFc[i] + 4
        /\ (i > 0 => IFc[i] >= IFc[i - 1] + 1)

\* a finished schedule with a stalled instruction three cycles behind the
\* instruction before it
C6_Witness ==
    /\ tphase = "done"
    /\ \E i \in Idx : i > 0 /\ stalls[i] = 2 /\ IFc[i] = IFc[i - 1] + 3

\* C7: at the end of every simulated cycle, every earlier producer of a
\* source of the instruction in Execute has been retired by Write-back, and
\* is in neither the Memory nor the Write-back slot.
C7_NoForwarding ==
    (sphase \in {"loop", "done"} /\ pipe[2] >= 0) =>
        \A p \in Idx : Depends(pipe[2], p) =>
            /\ finished[p] = 1
            /\ pipe[3] # p
            /\ pipe[4] # p

\* an instruction in Execute that reads the destination of the instruction
\* just before it, after being held in Decode
C7_Witness ==
    /\ sphase = "loop"
    /\ pipe[2] >= 1
    /\ Depends(pipe[2], pipe[2] - 1)
    /\ id_stalls[pipe[2]] = 2
    /\ finished[pipe[2] - 1] = 1

\* C8: in the finished schedule, for every pair j < i at any distance such
\* that instruction i reads instruction j's destination, ID[i] >= WB[j].
C8_LookbackSufficient ==
    tphase \in {"totals", "done"} =>
        \A i \in Idx, j \in Idx : Depends(i, j) => IDc[i] >= WBc[j]

\* a finished schedule where an instruction reads only the destination of the
\* instruction three places back and decodes in that producer's WB cycle
C8_Witness ==
    /\ tphase = "done"
    /\ \E i \in Idx :
         /\ Depends(i, i - 3)
         /\ ~Depends(i, i - 1)
         /\ ~Depends(i, i - 2)
         /\ stalls[i] = 0
         /\ IDc[i] = WBc[i - 3]

\* C9: for a program of N >= 1 instructions the simulation loop ends, and
\* when it has ended completed = N, every finished flag is set and all five
\* slots are empty.
C9_Termination ==
    /\ <>(n = 0 \/ sphase = "done")
    /\ [](sphase = "done" =>
            /\ completed = n
            /\ \A i \in Idx : finished[i] = 1
            /\ pipe = EmptyPipe)

\* the loop has ended on a program that stalled
C9_Witness ==
    /\ sphase = "done"
    /\ n >= 2
    /\ total_stalls > 0
    /\ completed = n
    /\ pipe = EmptyPipe

\* no instruction reads the destination of either of the two before it
HazardFree == \A i \in Idx : ~Depends(i, i - 1) /\ ~Depends(i, i - 2)

\* C10: the finished timeline has total cycles WB[N-1] = N + 4 + the sum of
\* stalls[i]; for a hazard-free program every stalls[i] = 0 and the total is
\* N + 4.
C10_TimelineTotals ==
    tphase = "done" =>
        /\ total_cycles = WBc[n - 1]
        /\ sum_stalls = SumTo(stalls, n)
        /\ total_cycles = n + 4 + sum_stalls
        /\ base_cycles = n + 4
        /\ HazardFree => /\ \A i \in Idx : stalls[i] = 0
                         /\ total_cycles = n + 4

\* a finished timeline of a program with stalled instructions
C10_Witness ==
    /\ tphase = "done"
    /\ n >= 3
    /\ sum_stalls >= 3
    /\ total_cycles = n + 4 + sum_stalls

\* the C array with cells 0 .. Len(seq) - 1 holding the values of seq
AsArray(seq) == [k \in 0 .. (Len(seq) - 1) |-> seq[k + 1]]

\* C11: the Timeline Calculator, run on the file
\* [add x1,x2,x3; add x4,x5,x6; add x7,x8,x9], ends with stalls [0,0,0] and
\* total cycles 7; on [add x1,x2,x3; sub x4,x1,x5] with stalls [0,2],
\* IF = [1,4] and total cycles 8; on [mov x1,x2; add x3,x4,x5; sub x6,x1,x4]
\* with stalls [0,0,1] and total cycles 8.
C11_Scenarios ==
    tphase = "done" =>
        /\ (file = ScenarioA) =>
               stalls = AsArray(<<0, 0, 0>>) /\ total_cycles = 7
        /\ (file = ScenarioB) =>
               /\ stalls = AsArray(<<0, 2>>)
               /\ IFc = AsArray(<<1, 4>>)
               /\ total_cycles = 8
        /\ (file = ScenarioC) =>
               stalls = AsArray(<<0, 0, 1>>) /\ total_cycles = 8

\* the timeline of the second scenario is finished
C11_Witness ==
    /\ file = ScenarioB
    /\ lineno = 2
    /\ tphase = "done"
    /\ csv_tl = "written"
    /\ sum_stalls = 2

\* the line as parse_line looks at it: byte-order mark, comment and trailing
\* whitespace removed
Cleaned(line) == rtrim_ascii(strip_comment(strip_bom_inplace(line)))

\* the number of register tokens x<digits> on a line
RegTokenCount(line) ==
    LET buf == Cleaned(line)
    IN  Cardinality({i \in 1 .. (Len(buf) - 1) :
                        buf[i] \in {"x", "X"} /\ isdigit(buf[i + 1])})

\* a line with an opcode and the wrong number of register tokens for it
ArityMismatch(line) ==
    \/ find_opcode(Cleaned(line)) \in {"add", "sub"} /\ RegTokenCount(line) # 3
    \/ find_opcode(Cleaned(line)) = "mov" /\ RegTokenCount(line) # 2

\* C12: every line read that carries an add/sub opcode with a number of
\* register tokens other than 3 (fewer or more), or a mov opcode with a number
\* other than 2, is rejected: both programs have ended with exit code 2, so
\* no instruction built from such a line reaches scheduling.
C12_ArityRefused ==
    \A k \in 1 .. lineno :
        ArityMismatch(file[k]) => sphase = "exit2" /\ tphase = "exit2"

\* C13: once the whole file is read and no instruction was parsed, both
\* programs can only end with exit code 4: no cycle is simulated, no schedule
\* entry is computed and neither CSV file is opened.
C13_EmptyProgramRefused ==
    (n = 0 /\ tphase \notin {"reading", "exit2", "exit3"}) =>
        /\ tphase \in {"parsed", "exit4"}
        /\ sphase \in {"parsed", "exit4"}
        /\ cycle = 0 /\ pipe = EmptyPipe /\ pc = 0 /\ completed = 0
        /\ ti = 0 /\ curIF = 1 /\ total_cycles = 0
        /\ DOMAIN stalls = {} /\ DOMAIN IFc = {} /\ DOMAIN WBc = {}
        /\ csv_sim = "unopened"
        /\ csv_tl = "unopened"

\* a file of two lines without an instruction: both programs ended with code 4
C13_Witness ==
    /\ lineno = 2
    /\ n = 0
    /\ tphase = "exit4"
    /\ sphase = "exit4"

\* the slots that hold something
Occupied == {k \in 0 .. 4 : pipe[k] >= 0}

\* C14: at the end of every cycle each instruction index is in at most one of
\* the five slots, and no instruction marked finished is in a slot.
C14_SlotExclusivity ==
    /\ \A j \in Occupied : \A k \in Occupied : pipe[j] = pipe[k] => j = k
    /\ \A k \in Occupied : pipe[k] \in Idx /\ finished[pipe[k]] = 0

\* several slots in use after an instruction has retired
C14_Witness ==
    /\ sphase = "loop"
    /\ completed >= 1
    /\ Cardinality(Occupied) >= 2
    /\ \E i \in Idx : finished[i] = 1

\* where instruction i is for the slot contents p and the finished flags fin:
\* -1 not fetched yet, 0 .. 4 its slot, 5 retired
StageOf(p, fin, i) ==
    IF \E k \in 0 .. 4 : p[k] = i THEN CHOOSE k \in 0 .. 4 : p[k] = i
    ELSE IF fin[i] = 1 THEN 5
    ELSE -1

\* C15: from one cycle to the next every instruction stays where it is or
\* moves to the next slot in the order IF, ID, EX, MEM, WB, never skipping a
\* slot or going back; it stays in a slot only in Fetch or Decode and only on
\* a stall cycle; from Write-back it is retired.
C15_StageOrder ==
    [][\A i \in Idx :
         LET a == StageOf(pipe, finished, i)
             b == StageOf(pipe', finished', i)
         IN  /\ b \in {a, a + 1}
             /\ (a \in 0 .. 4 /\ b = a) =>
                    /\ a \in {0, 1}
                    /\ stall_counter > 0
                    /\ total_stalls' = total_stalls + 1
             /\ a = 4 => b = 5]_vars

\* an instruction held in Decode by a stall while the one behind it waits in Fetch
C15_Witness ==
    /\ sphase = "loop"
    /\ pipe[0] >= 0
    /\ pipe[1] >= 0
    /\ id_stalls[pipe[1]] >= 1
    /\ completed >= 1

\* a step that is one iteration of the simulation loop
CycleStep == cycle' = cycle + 1

\* C16: on a cycle that begins with stall_counter > 0 the Memory occupant
\* moves to Write-back (after the retirement), the Execute occupant moves to
\* Memory, Execute becomes empty, stall_counter goes down by 1 and
\* total_stalls up by 1; Fetch, Decode and pc are unchanged and no hazard
\* check is made.
C16_StallCycle ==
    [][(CycleStep /\ stall_counter > 0) =>
          /\ pipe'[4] = pipe[3]
          /\ pipe'[3] = pipe[2]
          /\ pipe'[2] = -1
          /\ stall_counter' = stall_counter - 1
          /\ total_stalls' = total_stalls + 1
          /\ pipe'[0] = pipe[0]
          /\ pipe'[1] = pipe[1]
          /\ pc' = pc
          /\ hz' = hz]_vars

\* a stall cycle has moved an instruction from Execute to Memory and another
\* from Memory to Write-back while one waits in Decode
C16_Witness ==
    /\ sphase = "loop"
    /\ total_stalls >= 1
    /\ pipe[1] >= 0 /\ id_stalls[pipe[1]] = 1
    /\ pipe[2] = -1
    /\ pipe[3] >= 0
    /\ pipe[4] >= 0

\* C17: in every cycle the instruction found in Write-back is marked finished,
\* completed goes up by 1 and the slot is cleared before anything moves, so
\* that Write-back then holds what Memory held; with Write-back empty
\* completed and the finished flags are unchanged. completed never goes down,
\* goes up by at most 1 per step and counts the finished instructions.
C17_RetireFirst ==
    /\ [](completed = Cardinality({i \in Idx : finished[i] = 1}))
    /\ [][/\ completed' \in {completed, completed + 1}
          /\ CycleStep =>
               /\ pipe'[4] = pipe[3]
               /\ pipe[4] >= 0 =>
                     /\ finished[pipe[4]] = 0
                     /\ finished' = [finished EXCEPT ![pipe[4]] = 1]
                     /\ completed' = completed + 1
                     /\ \A k \in 0 .. 4 : pipe'[k] # pipe[4]
               /\ pipe[4] < 0 =>
                     /\ finished' = finished
                     /\ completed' = completed]_vars

\* one instruction has retired and the next one has taken its place in Write-back
C17_Witness ==
    /\ sphase = "loop"
    /\ completed = 1
    /\ finished[0] = 1
    /\ pipe[4] = 1

\* C18: on a cycle that begins with stall_counter = 0 every occupant moves one
\* slot forward (after the retirement); if pc < N instruction pc is placed in
\* Fetch and pc goes up by 1, otherwise Fetch is empty and pc is unchanged;
\* total_stalls is unchanged.
C18_NormalAdvance ==
    [][(CycleStep /\ stall_counter = 0) =>
          /\ pipe'[4] = pipe[3]
          /\ pipe'[3] = pipe[2]
          /\ pipe'[2] = pipe[1]
          /\ pipe'[1] = pipe[0]
          /\ IF pc < n THEN pipe'[0] = pc /\ pc' = pc + 1
                       ELSE pipe'[0] = -1 /\ pc' = pc
          /\ total_stalls' = total_stalls]_vars

\* the last instruction has been fetched and the ones before it fill the slots
\* behind Fetch
C18_Witness ==
    /\ sphase = "loop"
    /\ pc = n
    /\ n >= 3
    /\ pipe[0] = -1
    /\ pipe[1] = n - 1
    /\ pipe[2] = n - 2
    /\ pipe[3] = n - 3

\* C19: the hazard oracle is evaluated for an instruction once, at the end of
\* the normal-advance cycle that brings it into Decode, on the occupants of
\* Execute and Memory after that cycle's shift, and stall_counter is set to
\* its result s; the instruction then stays in Decode for s further cycles,
\* all of them stall cycles, and moves to Execute on the cycle after them.
C19_OneHazardCheck ==
    /\ [](\A i \in Idx :
            LET at == StageOf(pipe, finished, i)
            IN  /\ Len(hz[i]) = (IF at >= 1 THEN 1 ELSE 0)
                /\ at = 1 => id_stalls[i] + stall_counter = hz[i][1]
                /\ at >= 2 => id_stalls[i] = hz[i][1])
    /\ [][CycleStep =>
            /\ (stall_counter = 0 /\ pipe[0] >= 0) =>
                  /\ pipe'[1] = pipe[0]
                  /\ hz'[pipe[0]] = <<OracleRule(pipe'[1], pipe'[2], pipe'[3])>>
                  /\ stall_counter' = hz'[pipe[0]][1]
            /\ (stall_counter > 0 /\ pipe[1] >= 0) =>
                  /\ pipe'[1] = pipe[1]
                  /\ total_stalls' = total_stalls + 1
            /\ (stall_counter = 0 /\ pipe[1] >= 0) => pipe'[2] = pipe[1]
            /\ \A i \in Idx : i # pipe'[1] \/ stall_counter > 0 => hz'[i] = hz[i]]_vars

\* an instruction has left Decode for Execute after the two stall cycles its
\* hazard check asked for
C19_Witness ==
    /\ sphase = "loop"
    /\ pipe[2] >= 0
    /\ hz[pipe[2]] = <<2>>
    /\ id_stalls[pipe[2]] = 2
    /\ stall_counter = 0

\* C20: at the end of every cycle stall_counter is 0, 1 or 2, and when it is
\* above 0 the Decode slot is occupied.
C20_PendingStalls ==
    /\ stall_counter \in {0, 1, 2}
    /\ stall_counter > 0 => pipe[1] >= 0

\* stalls are pending for the instruction in Decode
C20_Witness ==
    /\ sphase = "loop"
    /\ stall_counter = 2
    /\ pipe[1] >= 0
    /\ pipe[2] >= 0
    /\ pipe[3] >= 0

\* C21: on a normal-advance cycle whose hazard check asks for stalls, Execute
\* does not hold the instruction that is in Decode (the test pipe[2] == id_idx
\* is false): the instruction that came from Fetch is in Decode, the one that
\* came from Decode is in Execute, and nothing is moved back.
C21_UndoNeverTaken ==
    [][(CycleStep /\ stall_counter = 0
          /\ OracleRule(pipe[0], pipe[1], pipe[2]) > 0) =>
          /\ pipe[1] # pipe[0]
          /\ pipe'[1] = pipe[0]
          /\ pipe'[2] = pipe[1]
          /\ pipe'[1] # pipe'[2]
          /\ stall_counter' = OracleRule(pipe[0], pipe[1], pipe[2])]_vars

\* the end of a detection cycle: the producer is in Execute, its reader in Decode
C21_Witness ==
    /\ sphase = "loop"
    /\ pipe[1] >= 0 /\ pipe[2] >= 0
    /\ P(pipe[2]).rd \in Sources(P(pipe[1]))
    /\ hz[pipe[1]] = <<2>>
    /\ id_stalls[pipe[1]] = 0
    /\ stall_counter = 2

\* C22: at the end of every cycle completed + the number of occupied slots
\* = pc <= N; the indices in the occupied slots strictly decrease from Fetch
\* towards Write-back; the instructions fetched so far are 0 .. pc - 1 and the
\* ones retired so far are 0 .. completed - 1, each fetch taking instruction pc
\* and each retirement instruction completed.
C22_Conservation ==
    /\ [](/\ completed + Cardinality(Occupied) = pc
          /\ pc <= n
          /\ \A j \in Occupied : \A k \in Occupied : j < k => pipe[j] > pipe[k]
          /\ {i \in Idx : finished[i] = 1} = 0 .. (completed - 1)
          /\ {pipe[k] : k \in Occupied} = completed .. (pc - 1))
    /\ [][/\ pc' \in {pc, pc + 1}
          /\ pc' = pc + 1 => pipe'[0] = pc
          /\ completed' = completed + 1 =>
                pipe[4] = completed /\ finished'[completed] = 1]_vars

\* all instructions fetched, the first retired, the others in program order
\* across the slots
C22_Witness ==
    /\ sphase = "loop"
    /\ n = 3
    /\ pc = 3
    /\ completed = 1
    /\ Cardinality(Occupied) = 2
    /\ total_stalls >= 1

C24_SimStallsAtMostTimeline ==
    (sphase = "done" /\ tphase = "done") =>
        \A i \in Idx :
            /\ id_stalls[i] <= stalls[i]
            /\ Depends(i, i - 1) => id_stalls[i] = stalls[i]
            /\ (i >= 1 /\ (id_stalls[i - 1] = 0 \/ stalls[i - 1] = 0)) =>
                   id_stalls[i] = stalls[i]

\* both programs ended: instruction 1 stalled twice in both, instruction 2
\* once in the timeline and not at all in the simulator
C24_Witness ==
    /\ sphase = "done" /\ tphase = "done"
    /\ n = 3
    /\ id_stalls[1] = 2 /\ stalls[1] = 2
    /\ id_stalls[2] = 0 /\ stalls[2] = 1

====
